---- MODULE Spec2Model ----
(***************************************************************************)
(* Model of src/main.py: the FastAPI service with the handlers /test-db,   *)
(* /submit and /chatbot, the MySQL connection utility and the Hugging Face *)
(* inference client generate_ai_response.                                  *)
(*                                                                         *)
(* Python str values are sequences of one-character strings, so that       *)
(* str.split, str.strip and the substring test are computed, not assumed.  *)
(* Decoded JSON values are records tagged by their Python type.            *)
(***************************************************************************)
EXTENDS Integers, Sequences, FiniteSets, TLC

\* ------------------------------------------------------------------ bounds
\* number of HTTP requests in flight over a run
NumReqs == 2
\* a generated text is the concatenation of at most MaxPieces pieces
MaxPieces == 4

\* ---------------------------------------------------------- string literals
AssistantMarker == <<"A","s","s","i","s","t","a","n","t",":">>
generated_text == <<"g","e","n","e","r","a","t","e","d","_","t","e","x","t">>
error == <<"e","r","r","o","r">>
label == <<"l","a","b","e","l">>
RoleMarker == <<"R","o","l","e",":">>
RESPONSE == <<"R","E","S","P","O","N","S","E">>
Space == <<" ">>
Newline == <<"\n">>
ModelErrorPrefix == <<"M","o","d","e","l"," ","e","r","r","o","r",":"," ">>
TransportErrorPrefix == <<"F","a","i","l","e","d"," ","t","o"," ","c","o","n","t","a","c","t"," ","H","u","g","g","i","n","g"," ","F","a","c","e"," ","A","P","I",":"," ">>
UnexpectedFormatMsg == <<"U","n","e","x","p","e","c","t","e","d"," ","A","P","I"," ","r","e","s","p","o","n","s","e"," ","f","o","r","m","a","t",".">>
NoneStr == <<"N","o","n","e">>
overloaded == <<"o","v","e","r","l","o","a","d","e","d">>
timed_out == <<"t","i","m","e","d"," ","o","u","t">>
IndexErrorMsg == <<"l","i","s","t"," ","i","n","d","e","x"," ","o","u","t"," ","o","f"," ","r","a","n","g","e">>
NotIterableMsg == <<"a","r","g","u","m","e","n","t"," ","i","s"," ","n","o","t"," ","i","t","e","r","a","b","l","e">>
StrIndexMsg == <<"s","t","r","i","n","g"," ","i","n","d","i","c","e","s"," ","m","u","s","t"," ","b","e"," ","i","n","t","e","g","e","r","s">>
ListIndexMsg == <<"l","i","s","t"," ","i","n","d","i","c","e","s"," ","m","u","s","t"," ","b","e"," ","i","n","t","e","g","e","r","s">>
NoSplitMsg == <<"o","b","j","e","c","t"," ","h","a","s"," ","n","o"," ","a","t","t","r","i","b","u","t","e"," ","'","s","p","l","i","t","'">>

\* characters str.strip() removes
Whitespace == {" ", "\n", "\t"}

\* ------------------------------------------------------- Python str methods
\* s[i : i+len(sub)] == sub
StartsAt(s, sub, i) ==
    /\ i >= 1
    /\ i + Len(sub) - 1 <= Len(s)
    /\ \A k \in 1..Len(sub) : s[i + k - 1] = sub[k]

\* sub in s, for two str values
Contains(s, sub) == \E i \in 1..(Len(s) + 1) : StartsAt(s, sub, i)

\* str.split(sep): scan left to right from position i; start is where the
\* current part began; occurrences of sep do not overlap
RECURSIVE split_from(_, _, _, _)
split_from(s, sep, i, start) ==
    IF i + Len(sep) - 1 > Len(s)
    THEN << SubSeq(s, start, Len(s)) >>
    ELSE IF StartsAt(s, sep, i)
         THEN << SubSeq(s, start, i - 1) >>
              \o split_from(s, sep, i + Len(sep), i + Len(sep))
         ELSE split_from(s, sep, i + 1, start)

split(s, sep) == split_from(s, sep, 1, 1)

RECURSIVE lstrip(_)
lstrip(s) == IF s # <<>> /\ Head(s) \in Whitespace THEN lstrip(Tail(s)) ELSE s

RECURSIVE rstrip(_)
rstrip(s) ==
    IF s # <<>> /\ s[Len(s)] \in Whitespace
    THEN rstrip(SubSeq(s, 1, Len(s) - 1))
    ELSE s

strip(s) == rstrip(lstrip(s))

\* ------------------------------------------------------ decoded JSON values
JNull == [t |-> "null"]
JNum(n) == [t |-> "num", n |-> n]
JStr(s) == [t |-> "str", s |-> s]
JList(items) == [t |-> "list", items |-> items]
\* a dict is a set of <<key, value>> pairs with distinct keys
JDict(kv) == [t |-> "dict", kv |-> kv]

isinstance(v, type) == v.t = type

\* key in d, for a dict d
has_key(d, key) == \E p \in d.kv : p[1] = key

\* d[key], for a dict d that has the key
dict_get(d, key) == (CHOOSE p \in d.kv : p[1] = key)[2]

Digits == <<"0","1","2","3","4","5","6","7","8","9">>

\* str(v) as the f-string renders it, for the scalar values drawn here
py_str(v) ==
    CASE v.t = "str" -> v.s
      [] v.t = "null" -> NoneStr
      [] v.t = "num" -> << Digits[v.n + 1] >>

\* --------------------------------------------------- generate_ai_response
\* what a call ends with: a returned str or a raised exception
Return(text) == [kind |-> "return", msg |-> text]
Raise(kind, msg) == [kind |-> kind, msg |-> msg]

\* what requests.post(...) followed by response.json() yields: an exception
\* (timeout, connection failure, undecodable body) or the decoded value
HttpException(msg) == [t |-> "exception", msg |-> msg]

\* "generated_text" in first, for the first element of a list;
\* "TypeError" when the element does not support the in operator
InFirst(first) ==
    CASE first.t = "dict" -> IF has_key(first, generated_text) THEN "yes" ELSE "no"
      [] first.t = "str" -> IF Contains(first.s, generated_text) THEN "yes" ELSE "no"
      [] first.t = "list" -> IF \E k \in 1..Len(first.items) :
                                    first.items[k] = JStr(generated_text)
                              THEN "yes" ELSE "no"
      [] OTHER -> "TypeError"

\* variant: keeps the part before the first marker, split(...)[0]
ExtractText_first_part(first) ==
    CASE first.t = "dict" ->
            LET v == dict_get(first, generated_text) IN
            IF v.t = "str"
            THEN LET parts == split(v.s, AssistantMarker) IN
                 Return(strip(parts[1]))
            ELSE Raise("AttributeError", NoSplitMsg)
      [] first.t = "str" -> Raise("TypeError", StrIndexMsg)
      [] OTHER -> Raise("TypeError", ListIndexMsg)

\* result[0]["generated_text"].split("Assistant:")[-1].strip()
ExtractText(first) ==
    CASE first.t = "dict" ->
            LET v == dict_get(first, generated_text) IN
            IF v.t = "str"
            THEN LET parts == split(v.s, AssistantMarker) IN
                 Return(strip(parts[Len(parts)]))
            ELSE Raise("AttributeError", NoSplitMsg)
      [] first.t = "str" -> Raise("TypeError", StrIndexMsg)
      [] OTHER -> Raise("TypeError", ListIndexMsg)

\* variant: the generated_text test does not require a list, so an object
\* that carries both fields is read as a success
generate_ai_response_text_first(reply) ==
    IF reply.t = "exception"
    THEN Raise("TransportError", TransportErrorPrefix \o reply.msg)
    ELSE LET result == reply IN
         IF isinstance(result, "dict") /\ has_key(result, generated_text)
         THEN ExtractText(result)
         ELSE IF isinstance(result, "list")
         THEN IF Len(result.items) = 0
              THEN Raise("IndexError", IndexErrorMsg)
              ELSE LET first == result.items[1] IN
                   CASE InFirst(first) = "TypeError" -> Raise("TypeError", NotIterableMsg)
                     [] InFirst(first) = "yes" -> ExtractText(first)
                     [] OTHER -> Raise("UnexpectedResponseShape", UnexpectedFormatMsg)
         ELSE IF isinstance(result, "dict") /\ has_key(result, error)
              THEN Raise("ModelError", ModelErrorPrefix \o py_str(dict_get(result, error)))
              ELSE Raise("UnexpectedResponseShape", UnexpectedFormatMsg)

generate_ai_response(reply) ==
    IF reply.t = "exception"
    THEN Raise("TransportError", TransportErrorPrefix \o reply.msg)
    ELSE LET result == reply IN
         IF isinstance(result, "list")
         THEN IF Len(result.items) = 0
              THEN Raise("IndexError", IndexErrorMsg)
              ELSE LET first == result.items[1] IN
                   CASE InFirst(first) = "TypeError" -> Raise("TypeError", NotIterableMsg)
                     [] InFirst(first) = "yes" -> ExtractText(first)
                     [] OTHER ->
                          \* the list test failed; a list is not a dict
                          Raise("UnexpectedResponseShape", UnexpectedFormatMsg)
         ELSE IF isinstance(result, "dict") /\ has_key(result, error)
              THEN Raise("ModelError", ModelErrorPrefix \o py_str(dict_get(result, error)))
              ELSE Raise("UnexpectedResponseShape", UnexpectedFormatMsg)

\* ------------------------------------------------ inputs of the unit runs
Pieces == {AssistantMarker, RoleMarker, RESPONSE, Space, Newline, generated_text}

RECURSIVE Concat(_)
Concat(ps) == IF ps = <<>> THEN <<>> ELSE Head(ps) \o Concat(Tail(ps))

PieceSeqs == UNION {[1..n -> Pieces] : n \in 0..MaxPieces}
Texts == {Concat(ps) : ps \in PieceSeqs}
ShortTexts == {<<>>, RESPONSE, generated_text, overloaded}

Scalars == {JNull, JNum(0), JNum(7)} \cup {JStr(s) : s \in ShortTexts}

\* dicts over the keys generated_text, error and label
Dicts ==
    {JDict({})}
    \cup {JDict({<<generated_text, JStr(s)>>}) : s \in Texts}
    \cup {JDict({<<generated_text, v>>}) : v \in Scalars}
    \cup {JDict({<<error, v>>}) : v \in Scalars}
    \cup {JDict({<<label, v>>}) : v \in Scalars}
    \cup {JDict({<<error, v>>, <<generated_text, JStr(RESPONSE)>>}) : v \in Scalars}
    \cup {JDict({<<error, v>>, <<label, JNum(7)>>}) : v \in Scalars}

SmallDicts ==
    {JDict({}), JDict({<<generated_text, JStr(RESPONSE)>>}),
     JDict({<<error, JStr(overloaded)>>}), JDict({<<label, JNum(7)>>})}

Elements ==
    Scalars \cup Dicts
    \cup {JStr(s) : s \in Texts}
    \cup {JList(<<>>), JList(<<JStr(generated_text)>>), JList(<<JStr(RESPONSE)>>)}

Lists ==
    {JList(<<>>)}
    \cup {JList(<<e>>) : e \in Elements}
    \cup {JList(<<e, f>>) : e \in Scalars \cup SmallDicts, f \in SmallDicts}

Decoded == Scalars \cup Dicts \cup Lists
Replies == Decoded \cup {HttpException(timed_out)}

\* inputs of the handler runs
Reqs == 1..NumReqs

\* what the inference endpoint answers in the handler runs
ModelReplies ==
    {JList(<<JDict({<<generated_text, JStr(AssistantMarker \o Space \o RESPONSE)>>})>>),
     JList(<<JDict({<<generated_text, JStr(RoleMarker \o Space \o RESPONSE)>>})>>),
     JDict({<<error, JStr(overloaded)>>}),
     JList(<<>>),
     HttpException(timed_out)}

\* PatientInput values (pydantic has validated the types before the handler)
Intakes ==
    {[name |-> "Ann", age |-> 40, weight |-> 60, height |-> 165,
      allergies |-> "none", medical_history |-> "asthma", symptoms |-> "cough"],
     [name |-> "Bob", age |-> 71, weight |-> 82, height |-> 180,
      allergies |-> "penicillin", medical_history |-> "none", symptoms |-> "fever"]}

\* payload.get("patient_id") and payload.get("message"); JNull is an absent key
PatientIdInputs == {JNull, JStr(<<>>)} \cup {JNum(n) : n \in 0..NumReqs}
MessageInputs == {JNull, JStr(<<>>), JStr(RESPONSE)}

NoIntake == [name |-> "", age |-> 0, weight |-> 0, height |-> 0,
             allergies |-> "", medical_history |-> "", symptoms |-> ""]
NoPayload == [data |-> NoIntake, patient_id |-> JNull, message |-> JNull]

\* ------------------------------------------------------------------- state
VARIABLES
    kind,           \* route of each request: "none" before it arrives
    pc,             \* position of each request in its handler
    payload,        \* request body
    conn,           \* the request's connection: "none", "open", "closed"
    patient_id,     \* submit_patient's local patient_id (cursor.lastrowid)
    ai_output,      \* submit_patient's local ai_output
    row,            \* chatbot_query's fetched row: a set of at most one row
    response,       \* what the caller receives; status 0 while in flight
    patients,       \* table patients
    prescriptions,  \* table prescriptions
    log,            \* history: the external operations each request made
    unit_pc,        \* unit run of generate_ai_response: "off", "call", "done"
    unit_reply,     \* its input
    unit_outcome    \* its result

vars == <<kind, pc, payload, conn, patient_id, ai_output, row, response,
          patients, prescriptions, log, unit_pc, unit_reply, unit_outcome>>

handler_vars == <<kind, pc, payload, conn, patient_id, ai_output, row, response,
                  patients, prescriptions, log>>
unit_vars == <<unit_pc, unit_reply, unit_outcome>>

\* ---------------------------------------------------------------- helpers
\* Python truthiness of a payload value: None, 0 and "" are falsy
Truthy(v) ==
    CASE v.t = "null" -> FALSE
      [] v.t = "num" -> v.n # 0
      [] v.t = "str" -> v.s # <<>>
      [] OTHER -> TRUE

HTTPException(status_code, detail) ==
    [status |-> status_code, kind |-> "error", text |-> detail, patient_id |-> 0]
Ok(body_kind, text, pid) ==
    [status |-> 200, kind |-> body_kind, text |-> text, patient_id |-> pid]
NoResponse == [status |-> 0, kind |-> "none", text |-> <<>>, patient_id |-> 0]

ConnFailedDetail == <<"D","a","t","a","b","a","s","e"," ","c","o","n","n","e","c","t","i","o","n"," ","f","a","i","l","e","d">>
NotFoundDetail == <<"P","a","t","i","e","n","t"," ","n","o","t"," ","f","o","u","n","d",".">>
RequiredDetail == <<"B","o","t","h"," ","'","p","a","t","i","e","n","t","_","i","d","'"," ","a","n","d"," ","'","m","e","s","s","a","g","e","'"," ","a","r","e"," ","r","e","q","u","i","r","e","d",".">>
DbErrorMsg == <<"d","b"," ","e","r","r","o","r">>
SavedMessage == <<"s","a","v","e","d">>
ConnectedMessage == <<"c","o","n","n","e","c","t","e","d">>

\* str(e) of an HTTPException: "<status_code>: <detail>"
HTTPException_str(e) ==
    << Digits[(e.status \div 100) + 1], Digits[((e.status \div 10) % 10) + 1],
       Digits[(e.status % 10) + 1], ":", " " >> \o e.text

\* except Exception as e: raise HTTPException(status_code=500, detail=str(e))
\* (the handlers' except clause; msg is str(e) of whatever was raised in try)
except_Exception(msg) == HTTPException(500, msg)

\* AUTO_INCREMENT of a table whose rows are never deleted
next_id(table) == Cardinality(table) + 1

\* FROM patients p JOIN prescriptions r ON p.id = r.patient_id WHERE p.id = %s
JoinRows(pid) ==
    {[p |-> p, r |-> q] : <<p, q>> \in
        {pq \in patients \X prescriptions :
            /\ pq[1].id = pq[2].patient_id
            /\ pid.t = "num" /\ pq[1].id = pid.n}}

\* one external operation of a request: id is the row id of a committed insert,
\* text is what a generate_ai_response call returned or the message it raised
Event(op, id) == [op |-> op, id |-> id, text |-> <<>>]
GenerateEvent(out) == [op |-> "generate", id |-> 0, text |-> out.msg]
Logged(r, op) == \E k \in 1..Len(log[r]) : log[r][k].op = op

Finish(r, resp) ==
    /\ pc' = [pc EXCEPT ![r] = "done"]
    /\ response' = [response EXCEPT ![r] = resp]

\* -------------------------------------------------------------------- Init
Init ==
    /\ kind = [r \in Reqs |-> "none"]
    /\ pc = [r \in Reqs |-> "idle"]
    /\ payload = [r \in Reqs |-> NoPayload]
    /\ conn = [r \in Reqs |-> "none"]
    /\ patient_id = [r \in Reqs |-> 0]
    /\ ai_output = [r \in Reqs |-> <<>>]
    /\ row = [r \in Reqs |-> {}]
    /\ response = [r \in Reqs |-> NoResponse]
    /\ patients = {}
    /\ prescriptions = {}
    /\ log = [r \in Reqs |-> <<>>]
    /\ unit_pc = "off"
    /\ unit_reply = JNull
    /\ unit_outcome = Return(<<>>)

\* ------------------------------------------------------------ request arrival
\* the framework routes a request to its handler
Request(r) ==
    /\ pc[r] = "idle"
    /\ \E k \in {"test_db", "submit", "chatbot"} :
         /\ kind' = [kind EXCEPT ![r] = k]
         /\ \E pl \in [data : Intakes, patient_id : PatientIdInputs, message : MessageInputs] :
              payload' = [payload EXCEPT ![r] =
                  CASE k = "submit" -> [NoPayload EXCEPT !.data = pl.data]
                    [] k = "chatbot" -> [NoPayload EXCEPT !.patient_id = pl.patient_id,
                                                          !.message = pl.message]
                    [] OTHER -> NoPayload]
    /\ pc' = [pc EXCEPT ![r] = "called"]
    /\ UNCHANGED <<conn, patient_id, ai_output, row, response, patients, prescriptions, log>>
    /\ UNCHANGED unit_vars

\* ------------------------------------------------------------- get_connection
\* mysql.connector.connect succeeds, or raises and get_connection raises
\* HTTPException(500, "Database connection failed: ...")
get_connection_ok(r) ==
    /\ conn' = [conn EXCEPT ![r] = "open"]
    /\ log' = [log EXCEPT ![r] = Append(@, Event("open", 0))]

\* ------------------------------------------------------------------- /test-db
test_db_connect(r) ==
    /\ kind[r] = "test_db" /\ pc[r] = "called"
    /\ \/ /\ get_connection_ok(r)
          /\ pc' = [pc EXCEPT ![r] = "select"]
          /\ UNCHANGED response
       \/ /\ Finish(r, Ok("error", HTTPException_str(HTTPException(500, ConnFailedDetail)), 0))
          /\ UNCHANGED <<conn, log>>
    /\ UNCHANGED <<kind, payload, patient_id, ai_output, row, patients, prescriptions>>
    /\ UNCHANGED unit_vars

\* SELECT DATABASE(), fetchone, cursor.close, conn.close, return
test_db_select(r) ==
    /\ kind[r] = "test_db" /\ pc[r] = "select"
    /\ \/ /\ conn' = [conn EXCEPT ![r] = "closed"]
          /\ log' = [log EXCEPT ![r] = @ \o <<Event("select", 0), Event("close", 0)>>]
          /\ Finish(r, Ok("message", ConnectedMessage, 0))
       \/ /\ log' = [log EXCEPT ![r] = Append(@, Event("select", 0))]
          /\ Finish(r, Ok("error", DbErrorMsg, 0))
          /\ UNCHANGED conn
    /\ UNCHANGED <<kind, payload, patient_id, ai_output, row, patients, prescriptions>>
    /\ UNCHANGED unit_vars

\* -------------------------------------------------------------------- /submit
submit_patient_connect(r) ==
    /\ kind[r] = "submit" /\ pc[r] = "called"
    /\ \/ /\ get_connection_ok(r)
          /\ pc' = [pc EXCEPT ![r] = "insert_patient"]
          /\ UNCHANGED response
       \/ /\ Finish(r, except_Exception(HTTPException_str(HTTPException(500, ConnFailedDetail))))
          /\ UNCHANGED <<conn, log>>
    /\ UNCHANGED <<kind, payload, patient_id, ai_output, row, patients, prescriptions>>
    /\ UNCHANGED unit_vars

\* cursor.lastrowid: the id generated by this cursor's own last INSERT
lastrowid(r, inserted_id) == inserted_id

\* INSERT INTO patients ...; conn.commit(); patient_id = cursor.lastrowid
submit_patient_insert_patient(r) ==
    /\ kind[r] = "submit" /\ pc[r] = "insert_patient"
    /\ \/ LET id == next_id(patients) IN
          /\ patients' = patients \cup {[id |-> id, data |-> payload[r].data]}
          /\ patient_id' = [patient_id EXCEPT ![r] = lastrowid(r, id)]
          /\ log' = [log EXCEPT ![r] = Append(@, Event("insert_patient", id))]
          /\ pc' = [pc EXCEPT ![r] = "generate"]
          /\ UNCHANGED response
       \/ /\ Finish(r, except_Exception(DbErrorMsg))
          /\ UNCHANGED <<patients, patient_id, log>>
    /\ UNCHANGED <<kind, payload, conn, ai_output, row, prescriptions>>
    /\ UNCHANGED unit_vars

\* variant: a failed model call deletes the patient row again
submit_patient_generate_rollback(r) ==
    /\ kind[r] = "submit" /\ pc[r] = "generate"
    /\ \E reply \in ModelReplies :
         LET out == generate_ai_response(reply) IN
         /\ log' = [log EXCEPT ![r] = Append(@, GenerateEvent(out))]
         /\ IF out.kind = "return"
            THEN /\ ai_output' = [ai_output EXCEPT ![r] = out.msg]
                 /\ pc' = [pc EXCEPT ![r] = "insert_prescription"]
                 /\ UNCHANGED <<response, patients>>
            ELSE /\ Finish(r, except_Exception(out.msg))
                 /\ patients' = {p \in patients : p.id # patient_id[r]}
                 /\ UNCHANGED ai_output
    /\ UNCHANGED <<kind, payload, conn, patient_id, row, prescriptions>>
    /\ UNCHANGED unit_vars

\* ai_output = generate_ai_response(prompt)
submit_patient_generate(r) ==
    /\ kind[r] = "submit" /\ pc[r] = "generate"
    /\ \E reply \in ModelReplies :
         LET out == generate_ai_response(reply) IN
         /\ log' = [log EXCEPT ![r] = Append(@, GenerateEvent(out))]
         /\ IF out.kind = "return"
            THEN /\ ai_output' = [ai_output EXCEPT ![r] = out.msg]
                 /\ pc' = [pc EXCEPT ![r] = "insert_prescription"]
                 /\ UNCHANGED response
            ELSE /\ Finish(r, except_Exception(out.msg))
                 /\ UNCHANGED ai_output
    /\ UNCHANGED <<kind, payload, conn, patient_id, row, patients, prescriptions>>
    /\ UNCHANGED unit_vars

\* variant: only the summary column receives the model output
prescription_values_summary_only(r) ==
    [patient_id |-> patient_id[r], ai_summary |-> ai_output[r],
     treatment_options |-> <<>>, medication_recommendations |-> <<>>]

\* variant: the patient id is read back from the table (SELECT MAX(id))
\* instead of being the id this request's own insert produced
prescription_values_latest_patient(r) ==
    [patient_id |-> Cardinality(patients), ai_summary |-> ai_output[r],
     treatment_options |-> ai_output[r], medication_recommendations |-> ai_output[r]]

\* the parameters of the INSERT INTO prescriptions statement:
\* (patient_id, ai_output, ai_output, ai_output)
prescription_values(r) ==
    [patient_id |-> patient_id[r], ai_summary |-> ai_output[r],
     treatment_options |-> ai_output[r], medication_recommendations |-> ai_output[r]]

\* INSERT INTO prescriptions ...; conn.commit(); cursor.close(); conn.close();
\* return.  The insert needs its patient_id to reference a patients row.
submit_patient_insert_prescription(r) ==
    /\ kind[r] = "submit" /\ pc[r] = "insert_prescription"
    /\ \/ LET id == next_id(prescriptions) IN
          /\ \E p \in patients : p.id = prescription_values(r).patient_id
          /\ prescriptions' = prescriptions \cup
                {[id |-> id, patient_id |-> prescription_values(r).patient_id,
                  ai_summary |-> prescription_values(r).ai_summary,
                  treatment_options |-> prescription_values(r).treatment_options,
                  medication_recommendations |->
                      prescription_values(r).medication_recommendations]}
          /\ conn' = [conn EXCEPT ![r] = "closed"]
          /\ log' = [log EXCEPT ![r] = @ \o <<Event("insert_prescription", id), Event("close", 0)>>]
          /\ Finish(r, Ok("saved", SavedMessage, patient_id[r]))
       \/ /\ Finish(r, except_Exception(DbErrorMsg))
          /\ UNCHANGED <<prescriptions, conn, log>>
    /\ UNCHANGED <<kind, payload, patient_id, ai_output, row, patients>>
    /\ UNCHANGED unit_vars

\* ------------------------------------------------------------------- /chatbot
\* variant: the field check tests patient_id only
chatbot_query_connect_no_message_check(r) ==
    /\ kind[r] = "chatbot" /\ pc[r] = "called"
    /\ IF ~Truthy(payload[r].patient_id)
       THEN /\ Finish(r, HTTPException(400, RequiredDetail))
            /\ UNCHANGED <<conn, log>>
       ELSE \/ /\ get_connection_ok(r)
               /\ pc' = [pc EXCEPT ![r] = "select"]
               /\ UNCHANGED response
            \/ /\ Finish(r, except_Exception(HTTPException_str(HTTPException(500, ConnFailedDetail))))
               /\ UNCHANGED <<conn, log>>
    /\ UNCHANGED <<kind, payload, patient_id, ai_output, row, patients, prescriptions>>
    /\ UNCHANGED unit_vars

\* the field check, then get_connection
chatbot_query_connect(r) ==
    /\ kind[r] = "chatbot" /\ pc[r] = "called"
    /\ IF ~Truthy(payload[r].patient_id) \/ ~Truthy(payload[r].message)
       THEN /\ Finish(r, HTTPException(400, RequiredDetail))
            /\ UNCHANGED <<conn, log>>
       ELSE \/ /\ get_connection_ok(r)
               /\ pc' = [pc EXCEPT ![r] = "select"]
               /\ UNCHANGED response
            \/ /\ Finish(r, except_Exception(HTTPException_str(HTTPException(500, ConnFailedDetail))))
               /\ UNCHANGED <<conn, log>>
    /\ UNCHANGED <<kind, payload, patient_id, ai_output, row, patients, prescriptions>>
    /\ UNCHANGED unit_vars

\* variant: no row check before the prompt is built and the model is called
chatbot_query_after_fetch_no_check(r, fetched) ==
    /\ pc' = [pc EXCEPT ![r] = "generate"]
    /\ UNCHANGED response

\* what follows row = cursor.fetchone(), cursor.close(), conn.close():
\* the raise of line 159 is inside the try block and HTTPException is an
\* Exception, so the except clause of line 182 catches it
chatbot_query_after_fetch(r, fetched) ==
    IF fetched = {}
    THEN Finish(r, except_Exception(HTTPException_str(HTTPException(404, NotFoundDetail))))
    ELSE /\ pc' = [pc EXCEPT ![r] = "generate"]
         /\ UNCHANGED response

\* the SELECT ... JOIN, fetchone, cursor.close, conn.close, the row check
chatbot_query_select(r) ==
    /\ kind[r] = "chatbot" /\ pc[r] = "select"
    /\ \/ \E fetched \in {{}} \cup {{j} : j \in JoinRows(payload[r].patient_id)} :
            /\ (fetched = {}) = (JoinRows(payload[r].patient_id) = {})
            /\ row' = [row EXCEPT ![r] = fetched]
            /\ conn' = [conn EXCEPT ![r] = "closed"]
            /\ log' = [log EXCEPT ![r] = @ \o <<Event("select", 0), Event("close", 0)>>]
            /\ chatbot_query_after_fetch(r, fetched)
       \/ /\ log' = [log EXCEPT ![r] = Append(@, Event("select", 0))]
          /\ Finish(r, except_Exception(DbErrorMsg))
          /\ UNCHANGED <<row, conn>>
    /\ UNCHANGED <<kind, payload, patient_id, ai_output, patients, prescriptions>>
    /\ UNCHANGED unit_vars

\* reply = generate_ai_response(prompt); return {"reply": reply.strip()}
chatbot_query_generate(r) ==
    /\ kind[r] = "chatbot" /\ pc[r] = "generate"
    /\ \E reply \in ModelReplies :
         LET out == generate_ai_response(reply) IN
         /\ log' = [log EXCEPT ![r] = Append(@, GenerateEvent(out))]
         /\ IF out.kind = "return"
            THEN Finish(r, Ok("reply", strip(out.msg), 0))
            ELSE Finish(r, except_Exception(out.msg))
    /\ UNCHANGED <<kind, payload, conn, patient_id, ai_output, row, patients, prescriptions>>
    /\ UNCHANGED unit_vars

Next ==
    \E r \in Reqs :
        \/ Request(r)
        \/ test_db_connect(r)
        \/ test_db_select(r)
        \/ submit_patient_connect(r)
        \/ submit_patient_insert_patient(r)
        \/ submit_patient_generate(r)
        \/ submit_patient_insert_prescription(r)
        \/ chatbot_query_connect(r)
        \/ chatbot_query_select(r)
        \/ chatbot_query_generate(r)

Spec == Init /\ [][Next]_vars

\* ------------------------------------------- unit runs of generate_ai_response
InitInfer ==
    /\ kind = [r \in Reqs |-> "none"]
    /\ pc = [r \in Reqs |-> "idle"]
    /\ payload = [r \in Reqs |-> NoPayload]
    /\ conn = [r \in Reqs |-> "none"]
    /\ patient_id = [r \in Reqs |-> 0]
    /\ ai_output = [r \in Reqs |-> <<>>]
    /\ row = [r \in Reqs |-> {}]
    /\ response = [r \in Reqs |-> NoResponse]
    /\ patients = {}
    /\ prescriptions = {}
    /\ log = [r \in Reqs |-> <<>>]
    /\ unit_pc = "call"
    /\ unit_reply \in Replies
    /\ unit_outcome = Return(<<>>)

Call_generate_ai_response ==
    /\ unit_pc = "call"
    /\ unit_outcome' = generate_ai_response(unit_reply)
    /\ unit_pc' = "done"
    /\ UNCHANGED unit_reply
    /\ UNCHANGED handler_vars

NextInfer == Call_generate_ai_response

SpecInfer == InitInfer /\ [][NextInfer]_vars

\* ===================================================================== claims
Done(r) == pc[r] = "done"
Ops(r) == [k \in 1..Len(log[r]) |-> log[r][k].op]
EventsOf(r, op) == {k \in 1..Len(log[r]) : log[r][k].op = op}
IdsOf(r, op) == {log[r][k].id : k \in EventsOf(r, op)}
IsPrefix(a, b) == Len(a) <= Len(b) /\ \A k \in 1..Len(a) : a[k] = b[k]
\* the lookup of a /chatbot request has run and returned
SelectReturned(r) == Logged(r, "select") /\ Logged(r, "close")

\* C1: a /chatbot request with a non-empty patient_id and message whose
\* joined lookup returns no row ends with status 404 (not the generic 500).
C1_LookupMissIs404 ==
    \A r \in Reqs :
        ( /\ kind[r] = "chatbot" /\ Done(r)
          /\ Truthy(payload[r].patient_id) /\ Truthy(payload[r].message)
          /\ SelectReturned(r) /\ row[r] = {} )
        => response[r].status = 404

\* C2: no request of any handler ends with its connection still open.
C2_ConnectionClosedOnEveryExit ==
    \A r \in Reqs : Done(r) => conn[r] # "open"

\* the two shapes generate_ai_response recognises, as the claims word them
SuccessShape(v) ==
    /\ v.t = "list"
    /\ Len(v.items) > 0
    /\ v.items[1].t = "dict"
    /\ \E p \in v.items[1].kv : p[1] = generated_text
ErrorShape(v) == v.t = "dict" /\ \E p \in v.kv : p[1] = error

\* C3: every decoded response that has neither the success shape nor the
\* error shape makes generate_ai_response fail with UnexpectedResponseShape
\* ("Unexpected API response format.") and with no other failure.
C3_OtherShapesAreUnexpected ==
    ( /\ unit_pc = "done" /\ unit_reply.t # "exception"
      /\ ~SuccessShape(unit_reply) /\ ~ErrorShape(unit_reply) )
    => unit_outcome = [kind |-> "UnexpectedResponseShape", msg |-> UnexpectedFormatMsg]

SingleText(text) == JList(<< JDict({<<generated_text, JStr(text)>>}) >>)
RoleText == RoleMarker \o Space \o RESPONSE
AssistantText == AssistantMarker \o Space \o RESPONSE

AfterLastMarker(s) ==
    LET at == {i \in 1..Len(s) :
                 /\ i + Len(AssistantMarker) - 1 <= Len(s)
                 /\ SubSeq(s, i, i + Len(AssistantMarker) - 1) = AssistantMarker}
    IN IF at = {} THEN s
       ELSE LET last == CHOOSE i \in at : \A j \in at : j <= i
            IN SubSeq(s, last + Len(AssistantMarker), Len(s))

\* out is s without its leading and trailing whitespace
IsTrimOf(out, s) ==
    \E a \in 0..Len(s) : \E b \in 0..(Len(s) - a) :
        /\ out = SubSeq(s, a + 1, Len(s) - b)
        /\ \A k \in 1..a : s[k] \in Whitespace
        /\ \A k \in (Len(s) - b + 1)..Len(s) : s[k] \in Whitespace
        /\ out # <<>> => (out[1] \notin Whitespace /\ out[Len(out)] \notin Whitespace)

C5_ErrorObjectIsModelError ==
    (unit_pc = "done" /\ ErrorShape(unit_reply))
    => /\ unit_outcome.kind = "ModelError"
       /\ \E p \in unit_reply.kv :
            /\ p[1] = error
            /\ unit_outcome.msg = ModelErrorPrefix \o py_str(p[2])

C5_Witness ==
    /\ unit_pc = "done"
    /\ unit_reply = JDict({<<error, JStr(overloaded)>>, <<generated_text, JStr(RESPONSE)>>})
    /\ unit_outcome.kind = "ModelError"

\* C6: a /submit call that responds with success has added exactly one row
\* to patients and exactly one to prescriptions; the prescription's
\* patient_id is the id of the patient row this call created, which is the
\* patient_id returned, and its three text fields equal the normalized
\* model output of this call.
C6_SuccessfulSubmitAddsLinkedPair ==
    \A r \in Reqs :
        (kind[r] = "submit" /\ Done(r) /\ response[r].status = 200)
        => /\ Cardinality(EventsOf(r, "insert_patient")) = 1
           /\ Cardinality(EventsOf(r, "insert_prescription")) = 1
           /\ Cardinality(EventsOf(r, "generate")) = 1
           /\ IdsOf(r, "insert_patient") = {response[r].patient_id}
           /\ \E p \in patients :
                p.id = response[r].patient_id /\ p.data = payload[r].data
           /\ \E q \in prescriptions :
                /\ q.id \in IdsOf(r, "insert_prescription")
                /\ q.patient_id = response[r].patient_id
                /\ \A k \in EventsOf(r, "generate") :
                     /\ q.ai_summary = log[r][k].text
                     /\ q.treatment_options = log[r][k].text
                     /\ q.medication_recommendations = log[r][k].text
                /\ q.ai_summary \in {RESPONSE, RoleText}

C6_Witness ==
    \E r \in Reqs :
        /\ kind[r] = "submit" /\ Done(r) /\ response[r].status = 200
        /\ \E q \in prescriptions :
             q.patient_id = response[r].patient_id /\ q.ai_summary = RESPONSE

\* C7: a /chatbot request whose message is empty or absent, or whose
\* patient_id is absent, ends with status 400 and during it no connection is
\* opened, no lookup is executed and no inference call is made.
C7_MissingFieldIs400WithoutEffects ==
    \A r \in Reqs :
        ( /\ kind[r] = "chatbot" /\ pc[r] # "called"
          /\ \/ payload[r].patient_id = JNull
             \/ payload[r].message = JNull
             \/ payload[r].message = JStr(<<>>) )
        => /\ Done(r)
           /\ response[r].status = 400
           /\ conn[r] = "none"
           /\ log[r] = <<>>

C7_Witness ==
    \E r \in Reqs :
        /\ kind[r] = "chatbot" /\ Done(r)
        /\ payload[r].patient_id = JNum(1) /\ payload[r].message = JStr(<<>>)
        /\ response[r].status = 400
        /\ patients # {}

\* C8: no step of a /chatbot request changes patients or prescriptions, and
\* such a request calls generate_ai_response only after its lookup has
\* returned a row: a request whose lookup misses makes no inference call.
C8_LookupMissSkipsInferenceAndChatbotNeverWrites ==
    [][\A r \in Reqs :
         (kind[r] = "chatbot" /\ pc'[r] # pc[r])
         => /\ patients' = patients
            /\ prescriptions' = prescriptions
            /\ IdsOf(r, "insert_patient")' = {}
            /\ IdsOf(r, "insert_prescription")' = {}
            /\ (SelectReturned(r)' /\ row'[r] = {}) => ~Logged(r, "generate")'
            /\ Logged(r, "generate")' => (SelectReturned(r) /\ row[r] # {})]_vars

C8_Witness ==
    \E r \in Reqs :
        /\ kind[r] = "chatbot" /\ Done(r)
        /\ SelectReturned(r) /\ row[r] = {}
        /\ ~Logged(r, "generate")
        /\ patients # {}

\* C9: /submit performs patient insert, inference call, prescription insert
\* in this order; when the inference call or the prescription insert fails
\* after the patient insert committed, the request ends with status 500, the
\* patient row stays in patients, no prescriptions row references it and the
\* request has added no prescriptions row.
C9_SubmitOrderAndOrphanedPatient ==
    \A r \in Reqs :
        kind[r] = "submit"
        => /\ IsPrefix(Ops(r), <<"open", "insert_patient", "generate",
                                 "insert_prescription", "close">>)
           /\ (Logged(r, "insert_patient") /\ Done(r) /\ ~Logged(r, "insert_prescription"))
              => /\ response[r].status = 500
                 /\ IdsOf(r, "insert_prescription") = {}
                 /\ \E p \in patients : p.id \in IdsOf(r, "insert_patient")
                 /\ \A q \in prescriptions : q.patient_id \notin IdsOf(r, "insert_patient")

C9_Witness ==
    \E r1, r2 \in Reqs :
        /\ kind[r1] = "submit" /\ Done(r1) /\ response[r1].status = 500
        /\ Ops(r1) = <<"open", "insert_patient", "generate">>
        /\ ai_output[r1] = <<>>
        /\ kind[r2] = "submit" /\ Done(r2) /\ response[r2].status = 500
        /\ Ops(r2) = <<"open", "insert_patient", "generate">>
        /\ ai_output[r2] # <<>>
        /\ Cardinality(patients) = 2 /\ prescriptions = {}

\* C10: in every reachable state every prescriptions row references an
\* existing patients row, no patients row is referenced by two prescriptions
\* rows, and the prescription a request inserted references the patient row
\* the same request inserted.
C10_ForeignKeyOneToOne ==
    /\ \A q \in prescriptions : \E p \in patients : p.id = q.patient_id
    /\ \A q1, q2 \in prescriptions : q1.patient_id = q2.patient_id => q1 = q2
    /\ \A p1, p2 \in patients : p1.id = p2.id => p1 = p2
    /\ \A r \in Reqs : \A q \in prescriptions :
         q.id \in IdsOf(r, "insert_prescription")
         => q.patient_id \in IdsOf(r, "insert_patient")

\* two overlapping /submit requests: r1 inserted its patient after r2 did
\* and responded while r2 was still in flight, then r2 responded
C10_Witness ==
    \E r1, r2 \in Reqs :
        /\ r1 # r2
        /\ kind[r1] = "submit" /\ response[r1].status = 200
        /\ kind[r2] = "submit" /\ response[r2].status = 200
        /\ response[r1].patient_id > response[r2].patient_id
        /\ \E q1, q2 \in prescriptions :
             /\ q1.patient_id = response[r1].patient_id
             /\ q2.patient_id = response[r2].patient_id
             /\ q1.id < q2.id

====
